---- MODULE Spec2Model ----
(***************************************************************************)
(* A model of DatabaseConnectionPool (src/ConnectionPool.py): the bounded  *)
(* pool of connection handles, its get/put/closeall operations and the     *)
(* connection() transaction scope, run by several gevent callers.          *)
(*                                                                         *)
(* Scheduling.  gevent is cooperative: a caller runs without interruption  *)
(* until it blocks in Queue.get() or enters a call on the driver           *)
(* (create_connection, the caller's work, commit, rollback,                *)
(* set_isolation_level).  Each action below is one such uninterrupted run: *)
(* a call returns and the code runs on to the next call, or to the end.    *)
(* closeall() pops with get_nowait() and close() is not a switch point.    *)
(*                                                                         *)
(* Driver.  The handle is opaque to the pool.  Every driver call may       *)
(* succeed or raise; a call that raises may leave the handle disconnected; *)
(* the caller's work may leave it disconnected whatever its outcome.  A    *)
(* handle never reconnects.                                                *)
(*                                                                         *)
(* Handles.  Handles are numbered in the order the factory returns them.   *)
(* The attributes of a handle are tracked while the queue or a caller      *)
(* holds it; a handle that neither holds can never be reached again.       *)
(* A direct caller of get() may hold several handles at once (`kept`).      *)
(*                                                                         *)
(* Specifications.  Spec: the callers use get(), put(), closeall() and     *)
(* connection(), the caller's work inside a scope being one opaque step.   *)
(* SpecFair: Spec under the fairness the gevent hub gives.  SpecIter: the  *)
(* callers use fetchiter() and plain connection() scopes, the work of a    *)
(* fetchiter() scope being the body of the generator, pull by pull.        *)
(***************************************************************************)
EXTENDS Integers, Sequences, FiniteSets, TLC

\* ---------------------------------------------------------------- bounds
NumCallers == 2
MaxSize == 3
NumLevels == 2
NumRows == 2
MaxRows == 2
ChunkMax == 2

None == 0
Callers == 1..NumCallers
Handles == 1..(MaxSize + NumCallers)
Levels == 1..NumLevels
Rows == 1..NumRows

VARIABLES
  size,       \* self.size
  pool,       \* self.pool: the idle queue, a sequence of handles
  getters,    \* callers blocked in self.pool.get(), in arrival order
  nCreated,   \* connections the factory has returned so far
  connected,  \* tracked handle -> its `connected` attribute
  level,      \* tracked handle -> its `isolation_level` attribute
  kept,       \* handles that direct callers of get() hold and may put() back
  pc,         \* caller -> where it is
  mode,       \* caller -> its call: "scope" (connection()), "raw" (get()), "put", "closeall"
  conn,       \* caller -> the local `conn` of connection() / the handle of a get()
  iso,        \* caller -> the local `isolation_level` of connection()
  exc,        \* caller -> the exception in flight / raised to the caller
  hist        \* caller -> what its current call has done so far

vars == <<size, pool, getters, nCreated, connected, level, kept, pc, mode, conn, iso, exc, hist>>

shared == <<size, pool, getters, nCreated, connected, level, kept>>

Range(q) == {q[i] : i \in 1..Len(q)}

\* What a call has done so far; reset when the call is over.
NoHist ==
  [got |-> None, waited |-> FALSE, prior |-> None, req |-> None,
   work |-> "none", connWork |-> "na", connFault |-> "na", deadCommit |-> FALSE,
   commits |-> 0, commitFail |-> FALSE, rollbacks |-> 0, rbFail |-> FALSE, sets |-> 0,
   drained |-> FALSE, idleBefore |-> {}, closedSet |-> {}, closeRaised |-> {},
   left |-> <<>>, puts |-> 0, putLevel |-> None, connExit |-> "na",
   restoreFail |-> FALSE, emptyExit |-> FALSE,
   result |-> <<>>, rows |-> <<>>, buf |-> <<>>, out |-> <<>>]

YesNo(b) == IF b THEN "yes" ELSE "no"

\* The isolation level of a connection the factory has just opened.
NewLevel == CHOOSE l \in Levels : \A m \in Levels : l <= m

\* Attribute map f restricted to the handles that queue q, a connection()
\* scope (locals cn) or a direct caller (kept) still holds.
Track(f, q, cn) ==
  [h \in (DOMAIN f) \cap (Range(q) \cup {cn[c] : c \in Callers} \cup kept) |-> f[h]]

Init ==
  /\ size = 0
  /\ pool = <<>>
  /\ getters = <<>>
  /\ nCreated = 0
  /\ connected = <<>>
  /\ level = <<>>
  /\ kept = {}
  /\ pc = [c \in Callers |-> "idle"]
  /\ mode = [c \in Callers |-> "scope"]
  /\ conn = [c \in Callers |-> None]
  /\ iso = [c \in Callers |-> None]
  /\ exc = [c \in Callers |-> "none"]
  /\ hist = [c \in Callers |-> NoHist]

\* ------------------------------------------------------------ get / put

\* Mutant: the capacity test is off by one.
MustWaitLate(sz, q) == sz > MaxSize \/ Len(q) > 0

\* Mutant: the capacity test forgets the queue.
MustWaitIgnoreQueue(sz, q) == sz >= MaxSize

\* Line 29: `self.size >= self.maxsize or pool.qsize()`.
MustWait(sz, q) == sz >= MaxSize \/ Len(q) > 0

\* Mutant: the head is read and left in the queue.
DequeueKeep(q) == q

\* Line 30: what Queue.get() leaves in the queue after returning its head.
Dequeue(q) == Tail(q)

\* The isolation levels callers ask connection() for: none (the default
\* argument) or a level other than the one the factory opens connections at.
\* Such a request differs from the level of a handle never touched and equals
\* the level of a handle an earlier scope has set.
Requests == {None} \cup (Levels \ {NewLevel})

\* The calls a caller can make on the pool to obtain a handle:
\* connection(isolation_level = L) or get() itself.
Calls == {<<"scope", L>> : L \in Requests} \cup {<<"raw", None>>}

\* An idle caller makes call k.
Begin(c, k) ==
  /\ pc[c] = "idle"
  /\ mode' = [mode EXCEPT ![c] = k[1]]

\* Mutant: the comparison of line 53 is dropped: the level is always applied.
LevelToSetAlways(L, lv) == L

\* Lines 52-56: the local isolation_level once the set-up has run on a handle
\* whose level is lv, when L was requested.
LevelToSet(L, lv) == IF L # None /\ lv = L THEN None ELSE L

\* The get() of caller c is blocked in pool.get() (line 30).
Blocked(c) == pc[c] = "waiting"

\* get() returns handle h (whose level is lv) to caller c, who made call k:
\* the value handed to a direct caller of get(), who keeps it, or
\* `conn = self.get()` of connection() (line 50), which runs on (lines 51-57)
\* to the yield or, when another level is requested, to the call of
\* set_isolation_level (line 56).
Grant(c, k, h, lv) ==
  /\ conn' = [conn EXCEPT ![c] = IF k[1] = "raw" THEN None ELSE h]
  /\ kept' = IF k[1] = "raw" THEN kept \cup {h} ELSE kept
  /\ iso' = [iso EXCEPT ![c] = LevelToSet(k[2], lv)]
  /\ pc' = [pc EXCEPT ![c] = IF k[1] = "raw" THEN "done"
                             ELSE IF LevelToSet(k[2], lv) = None THEN "work"
                             ELSE "set"]
  /\ hist' = [hist EXCEPT ![c] = [NoHist EXCEPT !.got = h, !.waited = Blocked(c),
                                                !.prior = lv, !.req = k[2]]]

\* get(), lines 28-30, the queue holds a handle: pool.get() returns at once.
GetIdle(c, k) ==
  /\ Begin(c, k)
  /\ MustWait(size, pool)
  /\ Len(pool) > 0
  /\ pool' = Dequeue(pool)
  /\ Grant(c, k, Head(pool), level[Head(pool)])
  /\ UNCHANGED <<size, getters, nCreated, connected, level, exc>>

\* get(), lines 28-30, the queue is empty and size >= maxsize: pool.get() blocks.
GetBlock(c, k) ==
  /\ Begin(c, k)
  /\ MustWait(size, pool)
  /\ Len(pool) = 0
  /\ getters' = Append(getters, c)
  /\ iso' = [iso EXCEPT ![c] = k[2]]
  /\ pc' = [pc EXCEPT ![c] = "waiting"]
  /\ UNCHANGED <<size, pool, nCreated, connected, level, kept, conn, exc, hist>>

\* The blocked pool.get() of line 30 returns: the queue wakes its longest
\* waiting getter once it holds a handle.
Wake(c) ==
  /\ pc[c] = "waiting"
  /\ getters # <<>>
  /\ Head(getters) = c
  /\ Len(pool) > 0
  /\ getters' = Tail(getters)
  /\ pool' = Dequeue(pool)
  /\ Grant(c, <<mode[c], iso[c]>>, Head(pool), level[Head(pool)])
  /\ UNCHANGED <<size, nCreated, connected, level, mode, exc>>

\* get(), lines 29-33 up to the call of create_connection(): the slot is
\* reserved in the same run as the capacity test.
GetReserve(c, k) ==
  /\ Begin(c, k)
  /\ ~MustWait(size, pool)
  /\ size' = size + 1
  /\ iso' = [iso EXCEPT ![c] = k[2]]
  /\ pc' = [pc EXCEPT ![c] = "creating"]
  /\ UNCHANGED <<pool, getters, nCreated, connected, level, kept, conn, exc, hist>>

\* create_connection() returns a new, connected handle (lines 33, 37).
CreateOk(c) ==
  /\ pc[c] = "creating"
  /\ nCreated < Cardinality(Handles)
  /\ nCreated' = nCreated + 1
  /\ connected' = (nCreated + 1 :> TRUE) @@ connected
  /\ level' = (nCreated + 1 :> NewLevel) @@ level
  /\ Grant(c, <<mode[c], iso[c]>>, nCreated + 1, NewLevel)
  /\ UNCHANGED <<size, pool, getters, mode, exc>>

\* Mutant: the except clause of lines 34-36 forgets `self.size -= 1`.
CreateFailKeepsSlot(c) ==
  /\ pc[c] = "creating"
  /\ pc' = [pc EXCEPT ![c] = "done"]
  /\ exc' = [exc EXCEPT ![c] = "create"]
  /\ UNCHANGED <<size, pool, getters, nCreated, connected, level, kept, mode, conn, iso, hist>>

\* create_connection() raises (lines 34-36): the slot is given back and the
\* exception leaves get(), and connection() with it (line 50 is outside the try).
CreateFail(c) ==
  /\ pc[c] = "creating"
  /\ size' = size - 1
  /\ pc' = [pc EXCEPT ![c] = "done"]
  /\ exc' = [exc EXCEPT ![c] = "create"]
  /\ UNCHANGED <<pool, getters, nCreated, connected, level, kept, mode, conn, iso, hist>>

\* put(item), lines 39-40, by a direct caller of get() with a handle it holds.
PutCall(c, h) ==
  /\ pc[c] = "idle"
  /\ h \in kept
  /\ kept' = kept \ {h}
  /\ pool' = Append(pool, h)
  /\ mode' = [mode EXCEPT ![c] = "put"]
  /\ pc' = [pc EXCEPT ![c] = "done"]
  /\ hist' = [hist EXCEPT ![c] = [NoHist EXCEPT !.got = h, !.puts = 1]]
  /\ UNCHANGED <<size, getters, nCreated, connected, level, conn, iso, exc>>

\* ------------------------------------------------------------- closeall

\* Mutant: an `if` for the `while`: one handle is popped.
closeallPopsOne(q) == IF q = <<>> THEN <<>> ELSE <<Head(q)>>

\* Lines 43-44: the handles the while loop pops, in order: the whole queue.
closeallPops(q) == q

\* closeall(), lines 42-46, on queue q: what is left of the queue.
closeallLeaves(q) == SubSeq(q, Len(closeallPops(q)) + 1, Len(q))

\* closeall(), lines 42-46, as part of a call whose record is hs: close() is
\* called on every popped handle; F are those whose close() raises, which is
\* suppressed (line 45).
closeallRecord(q, F, hs) ==
  [hs EXCEPT !.drained = TRUE, !.idleBefore = Range(q),
             !.closedSet = Range(closeallPops(q)), !.closeRaised = F,
             !.left = closeallLeaves(q)]

\* Mutant: closeall() gives back the slots of the handles it closes.
CloseAllCallReclaims(c) ==
  /\ pc[c] = "idle"
  /\ \E F \in SUBSET Range(closeallPops(pool)) :
       hist' = [hist EXCEPT ![c] = closeallRecord(pool, F, NoHist)]
  /\ pool' = closeallLeaves(pool)
  /\ size' = size - Len(closeallPops(pool))
  /\ connected' = Track(connected, pool', conn)
  /\ level' = Track(level, pool', conn)
  /\ mode' = [mode EXCEPT ![c] = "closeall"]
  /\ pc' = [pc EXCEPT ![c] = "done"]
  /\ UNCHANGED <<getters, nCreated, kept, conn, iso, exc>>

\* A caller calls closeall() directly.
CloseAllCall(c) ==
  /\ pc[c] = "idle"
  /\ \E F \in SUBSET Range(closeallPops(pool)) :
       hist' = [hist EXCEPT ![c] = closeallRecord(pool, F, NoHist)]
  /\ pool' = closeallLeaves(pool)
  /\ connected' = Track(connected, pool', conn)
  /\ level' = Track(level, pool', conn)
  /\ mode' = [mode EXCEPT ![c] = "closeall"]
  /\ pc' = [pc EXCEPT ![c] = "done"]
  /\ UNCHANGED <<size, getters, nCreated, kept, conn, iso, exc>>

\* ------------------------------------------------------ connection() scope

\* The outcomes <<ok, drop>> of one driver call on a handle: it returns, or it
\* raises and may leave the handle disconnected.
CallOutcomes == {<<TRUE, FALSE>>, <<FALSE, FALSE>>, <<FALSE, TRUE>>}

\* The outcomes of the caller's work at the yield (line 57): it returns or
\* raises, and the handle may be disconnected either way.
WorkOutcomes == BOOLEAN \X BOOLEAN

\* `connected` after a driver call on h that dropped the connection or not.
After(h, drop) == [connected EXCEPT ![h] = connected[h] /\ ~drop]

\* Mutant: the finally clause does not look at `connected`.
ShouldPutAny(cn, con) == cn # None

\* Line 70: `conn is not None and conn.connected`.
ShouldPut(cn, con) == cn # None /\ con[cn]

\* The finally clause, lines 69-73, run by caller c with local conn = cn, the
\* handles' `connected` = con, the queue = q and the call's record = hs: the
\* handle is put back (line 73), or set_isolation_level is called first
\* (line 72), or nothing is done and the scope is left.
FinallyClause(c, cn, con, q, hs) ==
  /\ IF ShouldPut(cn, con)
     THEN IF iso[c] = None
          THEN /\ pool' = Append(q, cn)
               /\ conn' = [conn EXCEPT ![c] = None]
               /\ pc' = [pc EXCEPT ![c] = "done"]
               /\ hist' = [hist EXCEPT ![c] =
                             [hs EXCEPT !.puts = @ + 1, !.putLevel = level[cn],
                                        !.connExit = YesNo(con[hs.got]),
                                        !.emptyExit = (pool' = <<>>)]]
          ELSE /\ pool' = q
               /\ conn' = [conn EXCEPT ![c] = cn]
               /\ pc' = [pc EXCEPT ![c] = "restore"]
               /\ hist' = [hist EXCEPT ![c] = hs]
     ELSE /\ pool' = q
          /\ conn' = [conn EXCEPT ![c] = None]
          /\ pc' = [pc EXCEPT ![c] = "done"]
          /\ hist' = [hist EXCEPT ![c] = [hs EXCEPT !.connExit = YesNo(con[hs.got]),
                                                    !.emptyExit = (pool' = <<>>)]]
  /\ connected' = Track(con, pool', conn')
  /\ level' = Track(level, pool', conn')

\* The except clause, lines 58-64, run by caller c on exception e with local
\* conn = h: a handle that is not connected is dropped and closeall() runs, and
\* the raise of line 64 runs the finally clause; a connected handle has
\* rollback() called on it (line 83).
ExceptClause(c, h, con, hs, e) ==
  /\ exc' = [exc EXCEPT ![c] = e]
  /\ IF ~con[h]
     THEN \E F \in SUBSET Range(closeallPops(pool)) :
            FinallyClause(c, None, con, closeallLeaves(pool),
                          closeallRecord(pool, F, [hs EXCEPT !.connFault = "no"]))
     ELSE /\ pc' = [pc EXCEPT ![c] = "rollback"]
          /\ connected' = con
          /\ hist' = [hist EXCEPT ![c] = [hs EXCEPT !.connFault = "yes"]]
          /\ UNCHANGED <<pool, level, conn>>

\* Mutant: the else clause's statements sit in the try body.
InTryBodyAll(origin) == TRUE

\* Lines 51-58: an exception raised in the try body (the isolation-level set-up
\* and the yield) runs the except clause; one raised in the else clause (lines
\* 66-68) does not, and runs the finally clause directly.
InTryBody(origin) == origin \in {"enter", "work"}

\* Exception e is raised at `origin` in caller c.
RaiseFrom(c, origin, e, h, con, hs) ==
  IF InTryBody(origin)
  THEN ExceptClause(c, h, con, hs, e)
  ELSE /\ exc' = [exc EXCEPT ![c] = e]
       /\ FinallyClause(c, h, con, pool, hs)

\* Mutant: commit() is called whatever `connected` says.
DeadAtCommitNever(h, con) == FALSE

\* Mutant: the test of line 66 without its `not`.
DeadAtCommitInverted(h, con) == con[h]

\* Line 66: `not conn.connected`.
DeadAtCommit(h, con) == ~con[h]

\* The else clause, lines 65-68, up to the call of commit(): a handle that is
\* not connected raises (line 67).
ElseClause(c, h, con, hs) ==
  IF DeadAtCommit(h, con)
  THEN RaiseFrom(c, "else", "dead", h, con, [hs EXCEPT !.deadCommit = TRUE])
  ELSE /\ pc' = [pc EXCEPT ![c] = "commit"]
       /\ connected' = con
       /\ hist' = [hist EXCEPT ![c] = hs]
       /\ UNCHANGED <<pool, level, conn, exc>>

\* conn.set_isolation_level(isolation_level) of line 56 returns or raises.
SetLevelReturns(c) ==
  /\ pc[c] = "set"
  /\ \E o \in CallOutcomes :
       IF o[1]
       THEN /\ level' = [level EXCEPT ![conn[c]] = iso[c]]
            /\ hist' = [hist EXCEPT ![c].sets = @ + 1]
            /\ pc' = [pc EXCEPT ![c] = "work"]
            /\ UNCHANGED <<pool, connected, conn, exc>>
       ELSE RaiseFrom(c, "enter", "setiso", conn[c], After(conn[c], o[2]),
                      [hist[c] EXCEPT !.sets = @ + 1])
  /\ UNCHANGED <<size, getters, nCreated, kept, mode, iso>>

\* The caller's work at the yield (line 57) returns or raises.
WorkReturns(c) ==
  /\ pc[c] = "work"
  /\ mode[c] = "scope"
  /\ \E o \in WorkOutcomes :
       IF o[1]
       THEN ElseClause(c, conn[c], After(conn[c], o[2]),
                       [hist[c] EXCEPT !.work = "ok", !.connWork = YesNo(~o[2])])
       ELSE RaiseFrom(c, "work", "work", conn[c], After(conn[c], o[2]),
                      [hist[c] EXCEPT !.work = "raise", !.connWork = YesNo(~o[2])])
  /\ UNCHANGED <<size, getters, nCreated, kept, mode, iso>>

\* Mutant: _rollback() returns the handle after a failed rollback too.
RollbackResultKeep(h, ok) == h

\* _rollback(), lines 81-87: what it returns when conn.rollback() returned
\* (ok) or raised.
RollbackResult(h, ok) == IF ok THEN h ELSE None

\* conn.rollback() of line 83 returns or raises; a rollback that raises is
\* given to the hub's handle_error (line 85) and not raised.  The raise of
\* line 64 runs the finally clause.
RollbackReturns(c) ==
  /\ pc[c] = "rollback"
  /\ \E o \in CallOutcomes :
       FinallyClause(c, RollbackResult(conn[c], o[1]), After(conn[c], o[2]), pool,
                     [hist[c] EXCEPT !.rollbacks = @ + 1, !.rbFail = ~o[1]])
  /\ UNCHANGED <<size, getters, nCreated, kept, mode, iso, exc>>

\* conn.commit() of line 68 returns, or raises from the else clause.
CommitReturns(c) ==
  /\ pc[c] = "commit"
  /\ \E o \in CallOutcomes :
       IF o[1]
       THEN /\ FinallyClause(c, conn[c], After(conn[c], o[2]), pool,
                             [hist[c] EXCEPT !.commits = @ + 1])
            /\ exc' = exc
       ELSE RaiseFrom(c, "else", "commit", conn[c], After(conn[c], o[2]),
                      [hist[c] EXCEPT !.commits = @ + 1, !.commitFail = TRUE])
  /\ UNCHANGED <<size, getters, nCreated, kept, mode, iso>>

\* Line 72: the level handed to set_isolation_level() in the finally clause,
\* the local isolation_level, which still holds the requested level.
RestoreArg(c) == iso[c]

\* conn.set_isolation_level(isolation_level) of line 72 returns, and the
\* handle is put back (line 73), or raises, and line 73 is not reached.
RestoreReturns(c) ==
  /\ pc[c] = "restore"
  /\ \E o \in CallOutcomes :
       IF o[1]
       THEN /\ level' = [level EXCEPT ![conn[c]] = RestoreArg(c)]
            /\ connected' = connected
            /\ pool' = Append(pool, conn[c])
            /\ conn' = [conn EXCEPT ![c] = None]
            /\ hist' = [hist EXCEPT ![c].sets = @ + 1, ![c].puts = @ + 1,
                                    ![c].putLevel = RestoreArg(c),
                                    ![c].connExit = "yes", ![c].emptyExit = FALSE]
            /\ exc' = exc
       ELSE /\ pool' = pool
            /\ conn' = [conn EXCEPT ![c] = None]
            /\ connected' = Track(connected, pool', conn')
            /\ level' = Track(level, pool', conn')
            /\ hist' = [hist EXCEPT ![c].sets = @ + 1, ![c].restoreFail = TRUE,
                                    ![c].connExit = YesNo(~o[2]),
                                    ![c].emptyExit = (pool = <<>>)]
            /\ exc' = [exc EXCEPT ![c] = "restore"]
  /\ pc' = [pc EXCEPT ![c] = "done"]
  /\ UNCHANGED <<size, getters, nCreated, kept, mode, iso>>

\* ------------------------------------------------------------ fetchiter

\* The result sets a statement can have: the sequences of at most MaxRows rows.
ResultSets == UNION {[1..n -> Rows] : n \in 0..MaxRows}

\* The sizes of the list cursor.fetchmany() can return (line 108) when `rows`
\* are left: empty only when none is left, and never more than ChunkMax.
ChunkSizes(rows) ==
  IF rows = <<>> THEN {0}
  ELSE {n \in 1..ChunkMax : n <= Len(rows)}

\* Mutant: the loop stops at the first list that is not full, before
\* yielding it.
IterStopsShort(items) == Len(items) < ChunkMax

\* Line 109: `if not items: break`.
IterStops(items) == items = <<>>

\* fetchiter(), lines 105-106, on its first pull: cursor() has entered
\* connection() (lines 77-78, by the get() and Grant above); conn.cursor()
\* (line 79) and cursor.execute() (line 106) return, the statement having
\* result set R, and fetchmany() is called (line 108); or one of them raises,
\* inside the body of the connection() scope.
IterExecute(c) ==
  /\ pc[c] = "work"
  /\ mode[c] = "iter"
  /\ \E o \in CallOutcomes :
       IF o[1]
       THEN /\ \E R \in ResultSets :
                 hist' = [hist EXCEPT ![c].result = R, ![c].rows = R]
            /\ pc' = [pc EXCEPT ![c] = "fetch"]
            /\ UNCHANGED <<pool, connected, level, conn, exc>>
       ELSE RaiseFrom(c, "work", "work", conn[c], After(conn[c], o[2]),
                      [hist[c] EXCEPT !.work = "raise", !.connWork = YesNo(~o[2])])
  /\ UNCHANGED <<size, getters, nCreated, kept, mode, iso>>

\* cursor.fetchmany() of line 108 returns a list of the next rows, or raises;
\* the connection may have dropped meanwhile.  An empty list ends the loop
\* (line 110), the body of the scope and with it the generator: the else
\* clause of connection() runs.  Otherwise `yield from` hands out the first
\* row of the list (line 111) and the generator is suspended.
IterFetch(c) ==
  /\ pc[c] = "fetch"
  /\ \E o \in WorkOutcomes :
       LET con == After(conn[c], o[2]) IN
       IF o[1]
       THEN \E n \in ChunkSizes(hist[c].rows) :
              LET items == SubSeq(hist[c].rows, 1, n)
                  rest == SubSeq(hist[c].rows, n + 1, Len(hist[c].rows))
              IN IF IterStops(items)
                 THEN ElseClause(c, conn[c], con,
                                 [hist[c] EXCEPT !.work = "ok",
                                                 !.connWork = YesNo(con[conn[c]])])
                 ELSE /\ hist' = [hist EXCEPT ![c].rows = rest,
                                              ![c].buf = Tail(items),
                                              ![c].out = Append(@, Head(items))]
                      /\ pc' = [pc EXCEPT ![c] = "yielded"]
                      /\ connected' = con
                      /\ UNCHANGED <<pool, level, conn, exc>>
       ELSE RaiseFrom(c, "work", "work", conn[c], con,
                      [hist[c] EXCEPT !.work = "raise",
                                      !.connWork = YesNo(con[conn[c]])])
  /\ UNCHANGED <<size, getters, nCreated, kept, mode, iso>>

\* The consumer pulls the next row: `yield from` hands out the next row of the
\* list (line 111) or, the list being used up, fetchmany() is called again
\* (line 108).
IterPull(c) ==
  /\ pc[c] = "yielded"
  /\ IF hist[c].buf # <<>>
     THEN /\ hist' = [hist EXCEPT ![c].buf = Tail(@),
                                  ![c].out = Append(@, Head(hist[c].buf))]
          /\ pc' = pc
     ELSE /\ pc' = [pc EXCEPT ![c] = "fetch"]
          /\ hist' = hist
  /\ UNCHANGED <<shared, mode, conn, iso, exc>>

\* The consumer abandons the suspended generator (close(), or its collection):
\* GeneratorExit is raised at line 111 and goes through the with statements
\* of lines 105 and 78 into connection() at line 57, where the bare except
\* clause takes it like any exception of the caller's work.
IterClose(c) ==
  /\ pc[c] = "yielded"
  /\ RaiseFrom(c, "work", "exit", conn[c], connected,
               [hist[c] EXCEPT !.work = "abandon",
                               !.connWork = YesNo(connected[conn[c]])])
  /\ UNCHANGED <<size, getters, nCreated, kept, mode, iso>>

\* The call is over: its caller goes on to something else.
Return(c) ==
  /\ pc[c] = "done"
  /\ pc' = [pc EXCEPT ![c] = "idle"]
  /\ iso' = [iso EXCEPT ![c] = None]
  /\ exc' = [exc EXCEPT ![c] = "none"]
  /\ hist' = [hist EXCEPT ![c] = NoHist]
  /\ UNCHANGED <<shared, mode, conn>>

\* ------------------------------------------------------- specifications

\* One step of caller c.
Step(c) ==
  \/ \E k \in Calls : GetIdle(c, k) \/ GetBlock(c, k) \/ GetReserve(c, k)
  \/ Wake(c) \/ CreateOk(c) \/ CreateFail(c)
  \/ (\E h \in Handles : PutCall(c, h)) \/ CloseAllCall(c)
  \/ SetLevelReturns(c) \/ WorkReturns(c)
  \/ RollbackReturns(c) \/ CommitReturns(c) \/ RestoreReturns(c)
  \/ Return(c)

Next == \E c \in Callers : Step(c)

Spec == Init /\ [][Next]_vars

\* The calls of the callers that use fetchiter() and plain connection() scopes.
IterCalls == {<<"iter", None>>, <<"scope", None>>}

\* One step of caller c among such callers: the caller's work of an "iter"
\* call is the body of fetchiter(), step by step.
IterStep(c) ==
  \/ \E k \in IterCalls : GetIdle(c, k) \/ GetBlock(c, k) \/ GetReserve(c, k)
  \/ Wake(c) \/ CreateOk(c) \/ CreateFail(c)
  \/ IterExecute(c) \/ IterFetch(c) \/ IterPull(c) \/ IterClose(c)
  \/ WorkReturns(c) \/ RollbackReturns(c) \/ CommitReturns(c)
  \/ Return(c)

NextIter == \E c \in Callers : IterStep(c)

SpecIter == Init /\ [][NextIter]_vars

\* What the gevent hub guarantees to caller c: the wake-up of a blocked
\* pool.get() that the queue has scheduled is run, provided the queue still
\* holds a handle when it runs, and a caller inside a call of the pool or of
\* the driver runs on.  A caller that is idle need not call the pool again.
Scheduled(c) ==
  \/ Wake(c) \/ CreateOk(c) \/ CreateFail(c)
  \/ SetLevelReturns(c) \/ WorkReturns(c)
  \/ RollbackReturns(c) \/ CommitReturns(c) \/ RestoreReturns(c)
  \/ Return(c)

Fairness == \A c \in Callers : WF_vars(Scheduled(c))

SpecFair == Spec /\ Fairness

\* --------------------------------------------------------------- claims

\* Caller c has left a connection() scope that had obtained a handle; hist[c]
\* is what the scope did.
ScopeDone(c) == pc[c] = "done" /\ mode[c] = "scope" /\ hist[c].got # None

\* How many holders handle h has: its places in the idle queue, the scopes
\* whose local `conn` it is, and a direct caller of get() keeping it.
Holders(h) ==
  Cardinality({i \in 1..Len(pool) : pool[i] = h})
    + Cardinality({c \in Callers : conn[c] = h})
    + (IF h \in kept THEN 1 ELSE 0)

\* C1: with maxsize = N, under every interleaving of get() and put() (other
\* callers running get() while create_connection is suspended included), the
\* factory never returns more than N connections and 0 <= size <= N.
C1_CapacityBound ==
  /\ nCreated <= MaxSize
  /\ 0 <= size
  /\ size <= MaxSize

\* C1 witness: two callers are both suspended in create_connection and the
\* slots they reserved fill the pool.
C1_TwoCreatingAtCapacity ==
  /\ size = MaxSize
  /\ \E c, d \in Callers : c # d /\ pc[c] = "creating" /\ pc[d] = "creating"

\* C2: no handle has two holders: it is never the handle of two callers at
\* once, never in the idle queue twice, and never in the idle queue while a
\* caller has it checked out.
C2_Exclusive == \A h \in Handles : Holders(h) <= 1

\* C2 witness: a handle that one scope has put back is checked out by another
\* caller.
C2_HandedOver ==
  \E c, d \in Callers :
    /\ c # d
    /\ ScopeDone(c)
    /\ hist[c].puts = 1
    /\ conn[d] = hist[c].got

\* C3 as stated: in every scope that has exited, exactly one of these
\* happened: commit() was called, rollback() was called, the handle was
\* discarded (not put back).
C3_ExactlyOne ==
  \A c \in Callers :
    ScopeDone(c) =>
      (IF hist[c].commits > 0 THEN 1 ELSE 0)
        + (IF hist[c].rollbacks > 0 THEN 1 ELSE 0)
        + (IF hist[c].puts = 0 THEN 1 ELSE 0) = 1

\* C3 as amended: in every scope that has exited, commit() and rollback() were
\* called at most once between them and the handle was put back at most once;
\* when neither was called the handle was discarded; a handle is discarded
\* after a commit() or rollback() only when the rollback raised, the handle
\* reports not connected at exit, or set_isolation_level raised in the
\* finally clause.
C3_AtMostOneThenDiscard ==
  \A c \in Callers :
    ScopeDone(c) =>
      /\ hist[c].commits + hist[c].rollbacks <= 1
      /\ hist[c].puts <= 1
      /\ (hist[c].commits + hist[c].rollbacks = 0 => hist[c].puts = 0)
      /\ (hist[c].commits + hist[c].rollbacks = 1 /\ hist[c].puts = 0
            => hist[c].rbFail \/ hist[c].connExit = "no" \/ hist[c].restoreFail)

\* C3 witness: a scope has exited whose rollback() raised on a handle that is
\* still connected: rollback was called and the handle is discarded.
C3_RollbackRaisedDiscarded ==
  \E c \in Callers :
    /\ ScopeDone(c)
    /\ hist[c].rollbacks = 1
    /\ hist[c].rbFail
    /\ hist[c].connExit = "yes"
    /\ hist[c].puts = 0

\* C4 as stated: when a scope has exited, the handle was put back if and only
\* if it reports connected at exit and no rollback failure marked it failed.
C4_PutIffUsable ==
  \A c \in Callers :
    ScopeDone(c) =>
      (hist[c].puts = 1 <=> (hist[c].connExit = "yes" /\ ~hist[c].rbFail))

\* C4 as amended: when a scope has exited, the handle was put back if and only
\* if it reports connected at exit, no rollback failure marked it failed and
\* set_isolation_level did not raise in the finally clause; otherwise it was
\* not put back at all.
C4_PutIffUsableAndRestored ==
  \A c \in Callers :
    ScopeDone(c) =>
      /\ hist[c].puts \in {0, 1}
      /\ hist[c].puts = 1 <=>
           (hist[c].connExit = "yes" /\ ~hist[c].rbFail /\ ~hist[c].restoreFail)

\* C4 witness: a scope has exited with a connected handle, without a rollback
\* failure, whose set_isolation_level raised in the finally clause: the handle
\* is not in the queue.
C4_RestoreRaisedNotPut ==
  \E c \in Callers :
    /\ ScopeDone(c)
    /\ hist[c].connExit = "yes"
    /\ ~hist[c].rbFail
    /\ hist[c].restoreFail
    /\ hist[c].puts = 0
    /\ hist[c].got \notin Range(pool)

\* Caller c has left a scope whose work returned on a handle that was still
\* connected when it returned.
WorkedConnected(c) ==
  ScopeDone(c) /\ hist[c].work = "ok" /\ hist[c].connWork = "yes"

\* Caller d makes a get() return in this step (directly or for connection()),
\* having called it now or having been blocked in it.
GetReturns(d) ==
  /\ pc[d] \in {"idle", "waiting"}
  /\ pc'[d] \notin {"idle", "waiting", "creating"}
  /\ mode'[d] \in {"scope", "raw"}

\* C5 as stated: a scope whose work returned on a still connected handle has
\* called commit() once and rollback() never and has put the handle back once.
C5_CommitOncePutOnce ==
  \A c \in Callers :
    WorkedConnected(c) =>
      hist[c].commits = 1 /\ hist[c].rollbacks = 0 /\ hist[c].puts = 1

\* The state part of C5 as amended.
C5_Exit ==
  \A c \in Callers :
    WorkedConnected(c) =>
      /\ hist[c].commits = 1
      /\ hist[c].rollbacks = 0
      /\ hist[c].puts = (IF hist[c].connExit = "yes" /\ ~hist[c].restoreFail
                         THEN 1 ELSE 0)

\* The step part of C5 as amended: the put appends the handle to the idle
\* queue; a get() never starts creating while the queue holds a handle; and
\* while the handle put back is the one the queue holds, the next get() to
\* return returns it and creates nothing.
C5_Reuse ==
  \A c, d \in Callers :
    /\ (pc[c] \in {"commit", "restore"} /\ pc'[c] = "done" /\ hist'[c].puts = 1
          => pool' = Append(pool, hist'[c].got))
    /\ (pc[d] = "idle" /\ pc'[d] = "creating" => pool = <<>>)
    /\ (WorkedConnected(c) /\ hist[c].puts = 1 /\ pool = <<hist[c].got>>
          /\ GetReturns(d)
          => hist'[d].got = hist[c].got /\ nCreated' = nCreated /\ size' = size)

\* C5 as amended: a scope whose work returned on a still connected handle has
\* called commit() once and rollback() never, and has put the handle back
\* once if the handle reports connected at exit and set_isolation_level did
\* not raise in the finally clause (not at all otherwise); a get() that
\* follows the put returns that handle and creates none.
C5_CommitOnceThenReuse == []C5_Exit /\ [][C5_Reuse]_vars

\* C5 witness: a scope committed and put its handle back, and another caller
\* has that handle from a later get(), with one connection ever created.
C5_Reused ==
  \E c, d \in Callers :
    /\ c # d
    /\ WorkedConnected(c)
    /\ hist[c].commits = 1
    /\ hist[c].puts = 1
    /\ hist[d].got = hist[c].got
    /\ conn[d] = hist[c].got
    /\ nCreated = 1

\* C6 as stated: a scope whose work raised on a still connected handle has
\* called rollback() once and commit() never and has put the handle back.
C6_RollbackOncePut ==
  \A c \in Callers :
    ScopeDone(c) /\ hist[c].work = "raise" /\ hist[c].connWork = "yes" =>
      hist[c].rollbacks = 1 /\ hist[c].commits = 0 /\ hist[c].puts = 1

\* C6 as amended: a scope whose work raised on a still connected handle has
\* called rollback() once and commit() never, and has put the handle back if
\* and only if the rollback did not raise, the handle reports connected at
\* exit and set_isolation_level did not raise in the finally clause.
C6_RollbackOncePutIfClean ==
  \A c \in Callers :
    ScopeDone(c) /\ hist[c].work = "raise" /\ hist[c].connWork = "yes" =>
      /\ hist[c].rollbacks = 1
      /\ hist[c].commits = 0
      /\ hist[c].puts = (IF ~hist[c].rbFail /\ hist[c].connExit = "yes"
                            /\ ~hist[c].restoreFail
                         THEN 1 ELSE 0)

\* C6 witness: a scope whose work raised has rolled back and its handle is
\* back in the idle queue.
C6_RolledBackAndPut ==
  \E c \in Callers :
    /\ ScopeDone(c)
    /\ hist[c].work = "raise"
    /\ hist[c].connWork = "yes"
    /\ hist[c].rollbacks = 1
    /\ hist[c].puts = 1
    /\ hist[c].got \in Range(pool)

\* C7: a scope whose work raised on a handle that reports disconnected has
\* never called rollback() (nor commit()), has not put the handle back, and
\* has left the idle queue empty with close() called on every handle that was
\* idle, whichever of those close() calls raised.
C7_AbandonAndDrain ==
  \A c \in Callers :
    ScopeDone(c) /\ hist[c].work = "raise" /\ hist[c].connWork = "no" =>
      /\ hist[c].rollbacks = 0
      /\ hist[c].commits = 0
      /\ hist[c].puts = 0
      /\ hist[c].got \notin Range(pool)
      /\ hist[c].drained
      /\ hist[c].emptyExit
      /\ hist[c].left = <<>>
      /\ hist[c].closedSet = hist[c].idleBefore
      /\ hist[c].closeRaised \subseteq hist[c].closedSet

\* C7 witness: such a scope has exited after draining two idle handles, the
\* close() of one of them raising and that of the other not.
C7_DrainedTwoOneCloseRaised ==
  \E c \in Callers :
    /\ ScopeDone(c)
    /\ hist[c].work = "raise"
    /\ hist[c].connWork = "no"
    /\ Cardinality(hist[c].idleBefore) = 2
    /\ Cardinality(hist[c].closeRaised) = 1
    /\ hist[c].closedSet = hist[c].idleBefore

\* C8: a scope whose work returned on a handle that reports not connected at
\* the commit has raised an error to its caller, has never called commit() and
\* has not put the handle back.
C8_DeadAtCommitRaises ==
  \A c \in Callers :
    ScopeDone(c) /\ hist[c].work = "ok" /\ hist[c].connWork = "no" =>
      /\ exc[c] = "dead"
      /\ hist[c].commits = 0
      /\ hist[c].puts = 0
      /\ hist[c].got \notin Range(pool)

\* C8 witness: a scope has exited on the raise of line 67.
C8_RaisedAtCommit ==
  \E c \in Callers :
    /\ ScopeDone(c)
    /\ hist[c].work = "ok"
    /\ hist[c].connWork = "no"
    /\ hist[c].deadCommit
    /\ exc[c] = "dead"

\* C9 as stated: a scope whose work returned on a handle found disconnected at
\* the commit has run closeall() and the idle queue is empty at its exit.
C9_DeadAtCommitDrains ==
  \A c \in Callers :
    ScopeDone(c) /\ hist[c].work = "ok" /\ hist[c].connWork = "no" =>
      hist[c].drained /\ hist[c].emptyExit

\* C9 as amended: a scope whose work returned on a handle found disconnected
\* at the commit has not put the handle back, has called neither rollback()
\* nor closeall(), and has closed no idle handle: the raise of line 67 is in
\* the else clause, which the except clause does not cover.
C9_DeadAtCommitNoDrain ==
  \A c \in Callers :
    ScopeDone(c) /\ hist[c].work = "ok" /\ hist[c].connWork = "no" =>
      /\ hist[c].puts = 0
      /\ hist[c].rollbacks = 0
      /\ ~hist[c].drained
      /\ hist[c].closedSet = {}

\* C9 witness: such a scope has exited and the idle queue still holds a handle.
C9_ExitWithIdleHandles ==
  \E c \in Callers :
    /\ ScopeDone(c)
    /\ hist[c].work = "ok"
    /\ hist[c].connWork = "no"
    /\ ~hist[c].emptyExit
    /\ pool # <<>>

\* C10: a scope entered with isolation_level = L on a handle whose level P
\* differs from L puts the handle back at level P.
C10_LevelRestored ==
  \A c \in Callers :
    ScopeDone(c) /\ hist[c].puts = 1 /\ hist[c].req # None
      /\ hist[c].req # hist[c].prior
      => hist[c].putLevel = hist[c].prior

\* Caller c is in a connection() scope, or has just left one, that was entered
\* with isolation_level = L on a handle whose level was L already.
SameLevelScope(c) ==
  /\ mode[c] = "scope"
  /\ hist[c].got # None
  /\ hist[c].req # None
  /\ hist[c].req = hist[c].prior

\* C11: a scope entered with isolation_level = L on a handle whose level is L
\* already never calls set_isolation_level: it is never at the call of line 56
\* nor at that of line 72, and has made no such call when it exits, on any
\* exit path; the handle it puts back is still at level L.
C11_NoSetWhenEqual ==
  \A c \in Callers :
    SameLevelScope(c) =>
      /\ pc[c] \notin {"set", "restore"}
      /\ hist[c].sets = 0
      /\ ~hist[c].restoreFail
      /\ (pc[c] = "done" /\ hist[c].puts = 1 => hist[c].putLevel = hist[c].req)

\* C11 witness: such a scope has exited through the except clause and a
\* rollback, and has put its handle back.
C11_EqualLevelRolledBack ==
  \E c \in Callers :
    /\ SameLevelScope(c)
    /\ pc[c] = "done"
    /\ hist[c].work = "raise"
    /\ hist[c].rollbacks = 1
    /\ hist[c].puts = 1

\* Caller d calls get() in this step, directly or through connection().
CallsGet(d) ==
  /\ pc[d] = "idle"
  /\ pc'[d] # "idle"
  /\ mode'[d] \in {"scope", "raw"}

\* One step seen from the get() of caller d.
C12_Step(d) ==
  /\ (pc[d] # "creating" /\ pc'[d] = "creating"
        => CallsGet(d) /\ pool = <<>> /\ size < MaxSize /\ size' = size + 1)
  /\ (CallsGet(d) /\ pool # <<>>
        => /\ hist'[d].got = Head(pool)
           /\ ~hist'[d].waited
           /\ pool' = Tail(pool)
           /\ nCreated' = nCreated
           /\ size' = size)
  /\ (CallsGet(d) /\ pool = <<>> /\ size >= MaxSize
        => pc'[d] = "waiting" /\ UNCHANGED <<pool, nCreated, size>>)
  /\ (CallsGet(d) /\ pool = <<>> /\ size < MaxSize => pc'[d] = "creating")
  /\ (pc[d] = "waiting" /\ pc'[d] # "waiting"
        => /\ pool # <<>>
           /\ hist'[d].got = Head(pool)
           /\ hist'[d].waited
           /\ nCreated' = nCreated
           /\ size' = size)

\* C12: get() starts creating a connection only when the idle queue is empty
\* and size < maxsize; with a handle in the queue it takes the queue's head
\* and creates nothing; with the queue empty and size >= maxsize it blocks,
\* and when it is woken it returns the queue's head, still creating nothing;
\* the factory returns a connection only to a caller that reserved a slot.
C12_GetDiscipline ==
  [][/\ \A d \in Callers : C12_Step(d)
     /\ (nCreated' # nCreated
           => \E c \in Callers : pc[c] = "creating" /\ hist'[c].got = nCreated')]_vars

\* C12 witness: with the pool at capacity, a caller that blocked in get() has
\* been woken with the handle another caller created and has just put back,
\* and no connection beyond maxsize was created.
C12_BlockedThenReused ==
  \E c, d \in Callers :
    /\ c # d
    /\ ScopeDone(c)
    /\ hist[c].got = MaxSize
    /\ hist[c].puts = 1
    /\ hist[d].waited
    /\ hist[d].got = hist[c].got
    /\ conn[d] = hist[c].got
    /\ size = MaxSize
    /\ nCreated = MaxSize

\* C13: under fair scheduling, as long as handles keep arriving in the idle
\* queue, a caller blocked in get() is eventually woken with a handle.
C13_NoStarvation ==
  \A c \in Callers :
    []<>(pool # <<>>) => ((pc[c] = "waiting") ~> (pc[c] # "waiting"))

\* The callers suspended in create_connection(), each holding a reserved slot.
Creating == {c \in Callers : pc[c] = "creating"}

\* The create_connection() of caller c raises in this step.
CreateRaises(c) == pc[c] = "creating" /\ exc'[c] = "create"

\* The state part of C14: size counts the connections created and the
\* creations in flight, and nothing else: a failed creation leaves no trace
\* in it.
C14_SlotsAccounted == size = nCreated + Cardinality(Creating)

\* The step part of C14: the step in which create_connection() raises takes
\* the reserved slot back and leaves the idle queue, its waiters and the
\* connections alone; the failure goes to the caller, whose call is over
\* without a handle and without a second attempt; afterwards size < maxsize.
C14_FailStep ==
  \A c \in Callers :
    CreateRaises(c) =>
      /\ size' = size - 1
      /\ size' < MaxSize
      /\ UNCHANGED <<pool, getters, nCreated, connected, level, kept, conn>>
      /\ pc'[c] = "done"
      /\ hist'[c].got = None

\* The retry part of C14: a get() that finds the queue empty and
\* size < maxsize attempts a creation, whatever failed before.
C14_Retry ==
  \A d \in Callers :
    CallsGet(d) /\ pool = <<>> /\ size < MaxSize
      => pc'[d] = "creating" /\ size' = size + 1

\* C14: when create_connection() fails inside get(), the reserved slot is
\* released, the idle queue is unchanged, the failure propagates to that
\* caller without a retry by the pool, and a later get() that finds the queue
\* empty and size < maxsize attempts creation again.
C14_CreateFailReleases == []C14_SlotsAccounted /\ [][C14_FailStep /\ C14_Retry]_vars

\* C14 witness: a creation has failed for one caller and the other caller's
\* get() is attempting a creation in the last slot of the pool: the slot the
\* failure released, since both reservations together would exceed maxsize.
C14_FailedThenRetried ==
  \E c, d \in Callers :
    /\ c # d
    /\ pc[c] = "done"
    /\ exc[c] = "create"
    /\ pc[d] = "creating"
    /\ size = MaxSize

\* C15 as stated: no step of any operation decreases size.
C15_SizeOnlyIncreases == [][size' >= size]_vars

\* C15 as amended: only get() changes size: by +1 when it reserves a slot
\* (line 31) and by -1 when create_connection() fails (line 35); put(),
\* closeall() and the exit of a scope, the discard of a dead handle included,
\* leave it as it is; the number of connections created never decreases.
C15_SizeChangesOnlyInGet ==
  [][/\ (size' # size =>
           \E c \in Callers :
             \/ CallsGet(c) /\ pc'[c] = "creating" /\ size' = size + 1
             \/ CreateRaises(c) /\ size' = size - 1)
     /\ nCreated' >= nCreated]_vars

\* C15 witness: a creation has failed for one caller, the other has left a
\* scope that discarded its handle, and size counts the connections created,
\* the discarded one included, and not the failed creation.
C15_FailedAndDiscarded ==
  \E c, d \in Callers :
    /\ c # d
    /\ pc[c] = "done"
    /\ exc[c] = "create"
    /\ ScopeDone(d)
    /\ hist[d].puts = 0
    /\ nCreated >= 1
    /\ size = nCreated

\* The handles checked out: the local `conn` of the scopes and the handles
\* direct callers of get() keep.
CheckedOut == ({conn[c] : c \in Callers} \ {None}) \cup kept

\* Caller c runs closeall() in this step, by a direct call.
RunsCloseall(c) == pc[c] = "idle" /\ mode'[c] = "closeall" /\ pc'[c] = "done"

\* The state part of C16: a closeall() that has run, called directly or by
\* the except clause, has called close() on every handle that was idle and
\* has left none in the queue, whichever close() calls raised, and has closed
\* no handle that is checked out now.
C16_ClosedAllIdle ==
  \A c \in Callers :
    hist[c].drained =>
      /\ hist[c].closedSet = hist[c].idleBefore
      /\ hist[c].left = <<>>
      /\ hist[c].closeRaised \subseteq hist[c].closedSet
      /\ (pc[c] = "done" /\ mode[c] = "closeall" => hist[c].closedSet \cap CheckedOut = {})

\* The step part of C16: the step of a direct closeall() empties the queue
\* and leaves every checked-out handle with its holder, connected as it was
\* and at the level it had; on an empty queue it changes nothing of the pool.
C16_CloseallStep ==
  \A c \in Callers :
    RunsCloseall(c) =>
      /\ pool' = <<>>
      /\ hist'[c].idleBefore = Range(pool)
      /\ UNCHANGED <<size, getters, nCreated, kept, conn>>
      /\ \A h \in CheckedOut :
           /\ h \in DOMAIN connected'
           /\ connected'[h] = connected[h]
           /\ level'[h] = level[h]
      /\ (pool = <<>> => UNCHANGED shared /\ hist'[c].closedSet = {})

\* C16: closeall() closes every handle that is idle when it runs and leaves
\* the idle queue empty even if close() fails on some of them; it neither
\* closes nor removes handles that are checked out; on an empty queue it
\* changes nothing.
C16_CloseallFrame == []C16_ClosedAllIdle /\ [][C16_CloseallStep]_vars

\* C16 witness: a direct closeall() has closed two idle handles, the close()
\* of one of them raising, while the other caller had an older handle checked
\* out in a scope; that scope has since committed and put its handle back,
\* the one handle in the queue now.
C16_CheckedOutSurvives ==
  \E c, d \in Callers :
    /\ c # d
    /\ pc[c] = "done"
    /\ mode[c] = "closeall"
    /\ Cardinality(hist[c].closedSet) = 2
    /\ Cardinality(hist[c].closeRaised) = 1
    /\ ScopeDone(d)
    /\ hist[d].commits = 1
    /\ hist[d].puts = 1
    /\ \A h \in hist[c].closedSet : hist[d].got < h
    /\ pool = <<hist[d].got>>

\* Caller c has left a scope whose work raised on a connected handle and whose
\* rollback() raised in turn.
RollbackFailed(c) ==
  /\ ScopeDone(c)
  /\ hist[c].work = "raise"
  /\ hist[c].connWork = "yes"
  /\ hist[c].rbFail

\* C17: when the caller's work raises on a connected handle and rollback()
\* raises too, the fault that reaches the caller is the one of the caller's
\* work, not the rollback's (which went to the hub's handle_error), and the
\* handle is not put back, nor is any other call made on it.
C17_RollbackFailureAside ==
  \A c \in Callers :
    RollbackFailed(c) =>
      /\ exc[c] = "work"
      /\ hist[c].rollbacks = 1
      /\ hist[c].commits = 0
      /\ hist[c].puts = 0
      /\ hist[c].got \notin Range(pool)
      /\ ~hist[c].restoreFail
      /\ ~hist[c].drained

\* C17 witness: such a scope has exited on a handle that still reports
\* connected after the failed rollback, and that had an isolation level
\* applied.
C17_RollbackRaisedConnected ==
  \E c \in Callers :
    /\ RollbackFailed(c)
    /\ hist[c].connExit = "yes"
    /\ hist[c].sets = 1
    /\ exc[c] = "work"

\* Caller c has left a scope whose work returned and whose commit() raised on
\* a handle that reports connected when the scope exits.
CommitRaisedConnected(c) ==
  /\ ScopeDone(c)
  /\ hist[c].work = "ok"
  /\ hist[c].commitFail
  /\ hist[c].connExit = "yes"

\* C20 as stated: when commit() raises on a handle that still reports
\* connected, the scope has called neither rollback() nor closeall(), the
\* commit's failure reaches the caller, and the handle is put back.
C20_CommitRaisedPutBack ==
  \A c \in Callers :
    CommitRaisedConnected(c) =>
      /\ hist[c].rollbacks = 0
      /\ ~hist[c].drained
      /\ exc[c] = "commit"
      /\ hist[c].puts = 1

\* C20 as amended: when commit() raises on a handle that still reports
\* connected, the scope has called neither rollback() nor closeall(); the
\* commit's failure reaches the caller and the handle is put back, unless
\* set_isolation_level raised in the finally clause: then that failure reaches
\* the caller in its place and the handle is not put back.
C20_CommitRaisedPutBackUnlessRestoreRaised ==
  \A c \in Callers :
    CommitRaisedConnected(c) =>
      /\ hist[c].rollbacks = 0
      /\ ~hist[c].drained
      /\ hist[c].commits = 1
      /\ IF hist[c].restoreFail
         THEN exc[c] = "restore" /\ hist[c].puts = 0
         ELSE exc[c] = "commit" /\ hist[c].puts = 1

\* C20 witness: commit() raised in a scope, the handle was put back without a
\* rollback, and another caller has it from a later get().
C20_UncommittedHandleReused ==
  \E c, d \in Callers :
    /\ c # d
    /\ CommitRaisedConnected(c)
    /\ exc[c] = "commit"
    /\ hist[c].rollbacks = 0
    /\ hist[c].puts = 1
    /\ conn[d] = hist[c].got

\* The connections created that nobody holds any more: discarded by a scope
\* or closed by closeall().
Destroyed == {h \in 1..nCreated : Holders(h) = 0}

\* Every connection the pool may create has been created and destroyed, and
\* no creation is in flight.
Exhausted ==
  /\ nCreated = MaxSize
  /\ Cardinality(Destroyed) = MaxSize
  /\ Creating = {}

\* The state part of C19: size is the number of creations in flight, idle
\* handles, checked-out handles and destroyed handles together; once the pool
\* is exhausted the idle queue is empty with size >= maxsize.
C19_SlotsNeverReclaimed ==
  /\ size = Cardinality(Creating) + Len(pool) + Cardinality(CheckedOut)
              + Cardinality(Destroyed)
  /\ (Exhausted => pool = <<>> /\ CheckedOut = {} /\ size >= MaxSize)

\* The step part of C19: an exhausted pool stays exhausted; every get() on it
\* blocks, and a blocked get() stays blocked.
C19_ExhaustedStep ==
  Exhausted =>
    /\ Exhausted'
    /\ \A d \in Callers :
         /\ (CallsGet(d) => pc'[d] = "waiting")
         /\ (pc[d] = "waiting" => pc'[d] = "waiting")

\* C19: the slots of destroyed connections are never reclaimed: size counts
\* them with the creations in flight, the idle and the checked-out handles;
\* once maxsize connections have been created and all of them destroyed,
\* every get() blocks for ever (no caller has a handle left to put).
C19_NoReclaim == []C19_SlotsNeverReclaimed /\ [][C19_ExhaustedStep]_vars

\* C19 witness: the pool is exhausted and both callers are blocked in get().
C19_AllBlocked ==
  /\ Exhausted
  /\ \A c \in Callers : pc[c] = "waiting"

\* Caller c has pulled from a fetchiter() generator, which obtained a handle.
Iterating(c) == mode[c] = "iter" /\ hist[c].got # None

\* The generator of caller c is in the body of its scope: between the first
\* pull and the exhaustion, the abandonment or a fault.
IterOpen(c) == Iterating(c) /\ pc[c] \in {"work", "fetch", "yielded"}

\* The generator of caller c is over and its scope has exited.
IterDone(c) == Iterating(c) /\ pc[c] = "done"

\* The parts of C18 that hold as stated: the rows yielded so far, those of the
\* list being yielded and those still at the cursor are the result set, in
\* order, so that on exhaustion the rows yielded are exactly the result set;
\* from the first pull until exhaustion or abandonment the handle is the
\* generator's alone and not in the idle queue; once the generator is
\* abandoned, the scope has exited through its except and finally clauses:
\* the handle was rolled back and put back, or dropped (and the queue drained).
C18_RowsAndCheckout ==
  \A c \in Callers :
    /\ (Iterating(c) =>
          hist[c].out \o hist[c].buf \o hist[c].rows = hist[c].result)
    /\ (Iterating(c) /\ hist[c].work = "ok" => hist[c].out = hist[c].result)
    /\ (IterOpen(c) =>
          /\ conn[c] = hist[c].got
          /\ Holders(hist[c].got) = 1
          /\ hist[c].got \notin Range(pool)
          /\ hist[c].puts = 0)
    /\ (Iterating(c) /\ hist[c].work = "abandon" =>
          /\ pc[c] \in {"rollback", "done"}
          /\ hist[c].commits = 0
          /\ exc[c] = "exit"
          /\ (pc[c] = "done" =>
                /\ conn[c] = None
                /\ hist[c].rollbacks = (IF hist[c].connWork = "yes" THEN 1 ELSE 0)
                /\ hist[c].drained = (hist[c].connWork = "no")
                /\ hist[c].puts =
                     (IF hist[c].rollbacks = 1 /\ ~hist[c].rbFail
                         /\ hist[c].connExit = "yes" THEN 1 ELSE 0)))

\* C18 as stated: the parts above and, on exhaustion, the scope has called
\* commit() and has put the handle back.
C18_IterThenCommitAndPut ==
  /\ C18_RowsAndCheckout
  /\ \A c \in Callers :
       IterDone(c) /\ hist[c].work = "ok" =>
         hist[c].commits = 1 /\ hist[c].puts = 1

\* C18 as amended: the parts above and, on exhaustion, the scope has called
\* commit() once if the handle reported connected then (otherwise it has
\* raised without a commit), and has put the handle back if commit() was
\* called and the handle reports connected at exit.
C18_IterThenCommitIfConnected ==
  /\ C18_RowsAndCheckout
  /\ \A c \in Callers :
       IterDone(c) /\ hist[c].work = "ok" =>
         /\ hist[c].rollbacks = 0
         /\ hist[c].commits = (IF hist[c].connWork = "yes" THEN 1 ELSE 0)
         /\ (hist[c].connWork = "no" => exc[c] = "dead")
         /\ hist[c].puts =
              (IF hist[c].commits = 1 /\ hist[c].connExit = "yes" THEN 1 ELSE 0)

\* C18 witness: a generator has yielded a result set of two different rows in
\* order and is exhausted; its scope has committed and put the handle back,
\* and the other caller, blocked in get() meanwhile, has been woken with it.
C18_ExhaustedAndHandedOver ==
  \E c, d \in Callers :
    /\ c # d
    /\ IterDone(c)
    /\ hist[c].work = "ok"
    /\ Len(hist[c].result) = 2
    /\ hist[c].result[1] # hist[c].result[2]
    /\ hist[c].out = hist[c].result
    /\ hist[c].commits = 1
    /\ hist[c].puts = 1
    /\ hist[d].waited
    /\ conn[d] = hist[c].got

\* C18, the case of abandonment: a generator abandoned after its first row,
\* with rows left, has exited its scope by a rollback and the handle is back
\* in the idle queue.
C18_AbandonedAndPutBack ==
  \E c \in Callers :
    /\ IterDone(c)
    /\ hist[c].work = "abandon"
    /\ Len(hist[c].out) = 1
    /\ Len(hist[c].result) = 2
    /\ hist[c].rollbacks = 1
    /\ hist[c].puts = 1
    /\ hist[c].got \in Range(pool)

====
